---- MODULE Spec2Model ----
(***************************************************************************)
(* ImageMaker (Modules/CLI/ImageMaker/ImageMaker.cxx): main dispatches on  *)
(* Dimension, DoIt<D> dispatches on the scalar type and on                 *)
(* numberOfComponents > 1, DoIt<OutputImageType, OutputScalarType> builds, *)
(* fills and writes the image.  One run of the program is one behaviour;   *)
(* pc is the position of the single thread of control.                     *)
(*                                                                         *)
(* Indices: the source indexes from 0, sequences here from 1, so the       *)
(* source's v[i] is v[i + 1].                                              *)
(* Scalars: the fill values are whole numbers; an integer scalar kind      *)
(* keeps its width (LP64: long is 64 bits).  A stored scalar is a record   *)
(* [def, hi, off]: def is FALSE for memory never written, and the value    *)
(* is off when hi = 0 and 2^hi + off otherwise (the wrapped values of the  *)
(* 32- and 64-bit unsigned kinds lie above the model checker's integers).  *)
(***************************************************************************)
EXTENDS Integers, Sequences, FiniteSets, TLC

\* ---------------------------------------------------------------- bounds
\* Largest per-axis entry of Size.
MaxSize == 2
\* Largest NumberOfComponents.
MaxComponents == 3
\* Longest FillValue.
MaxFillLen == 2

\* ------------------------------------------------------- parameter sets
\* Dimension values: the three cases of main's switch, and one value on
\* each side of them (both reach the default label).
Dimensions == {0, 1, 2, 3, 4}
ValidDimensions == {1, 2, 3}

\* The ten scalar-type tags and one tag that is none of them.
ScalarTags ==
  {"uchar", "char", "ushort", "short", "uint", "int", "ulong", "long",
   "float", "double"}
AllTags == ScalarTags \cup {"bogus"}

\* Raw fill values: negative, plain, and above the 8-bit kinds.
FillDomain == {-1, 10, 300}

\* -------------------------------------------------------- scalar kinds
\* itk::ImageIOBase::GetComponentTypeFromString, by the tags of the
\* parameter set: a tag that is none of the ten is UNKNOWNCOMPONENTTYPE.
GetComponentTypeFromString(tag) ==
  CASE tag = "uchar"  -> "UCHAR"
    [] tag = "char"   -> "CHAR"
    [] tag = "ushort" -> "USHORT"
    [] tag = "short"  -> "SHORT"
    [] tag = "uint"   -> "UINT"
    [] tag = "int"    -> "INT"
    [] tag = "ulong"  -> "ULONG"
    [] tag = "long"   -> "LONG"
    [] tag = "float"  -> "FLOAT"
    [] tag = "double" -> "DOUBLE"
    [] OTHER          -> "UNKNOWNCOMPONENTTYPE"

\* The scalar types the template arguments of DoIt<D> name.
CTypes ==
  {"unsigned char", "char", "unsigned short", "short", "unsigned int", "int",
   "unsigned long", "long", "float", "double"}

IsFloating(t) == t \in {"float", "double"}

IsSigned(t) == t \in {"char", "short", "int", "long"}

Bits(t) ==
  CASE t \in {"unsigned char", "char"}   -> 8
    [] t \in {"unsigned short", "short"} -> 16
    [] t \in {"unsigned int", "int"}     -> 32
    [] t \in {"unsigned long", "long"}   -> 64

\* A stored scalar.
Num(n) == [def |-> TRUE, hi |-> 0, off |-> n]
Uninit == [def |-> FALSE, hi |-> 0, off |-> 0]

\* Whether whole number v (a fill value: far below 2^31) is a value of
\* integer type t.
InRange(t, v) ==
  IF IsSigned(t)
  THEN Bits(t) >= 32 \/ (v >= -(2^(Bits(t) - 1)) /\ v < 2^(Bits(t) - 1))
  ELSE v >= 0 /\ (Bits(t) >= 32 \/ v < 2^Bits(t))

\* v reduced modulo 2^Bits(t) into t's range.
Wrap(t, v) ==
  IF Bits(t) >= 32
  THEN IF ~IsSigned(t) /\ v < 0
       THEN [def |-> TRUE, hi |-> Bits(t), off |-> v]
       ELSE Num(v)
  ELSE LET m == 2^Bits(t)
           r == v % m
       IN  IF IsSigned(t) /\ r >= m \div 2 THEN Num(r - m) ELSE Num(r)

\* v clamped to t's range.
Saturate(t, v) ==
  IF IsSigned(t)
  THEN IF Bits(t) >= 32 THEN Num(v)
       ELSE IF v < -(2^(Bits(t) - 1)) THEN Num(-(2^(Bits(t) - 1)))
       ELSE IF v >= 2^(Bits(t) - 1) THEN Num(2^(Bits(t) - 1) - 1)
       ELSE Num(v)
  ELSE IF v < 0 THEN Num(0)
       ELSE IF Bits(t) < 32 /\ v >= 2^Bits(t) THEN Num(2^Bits(t) - 1)
       ELSE Num(v)

\* The implicit conversion of line 200, pixel[c] = FillValue[...]: the
\* value itself when the target type holds it; a value the type does not
\* hold converts to whatever the build produces, the wrapped value
\* (conversion through a wider integer) or the clamped one (a saturating
\* conversion instruction).
CastOutcomes(t, v) ==
  IF IsFloating(t) \/ InRange(t, v)
  THEN {Num(v)}
  ELSE {Wrap(t, v), Saturate(t, v)}

\* ------------------------------------------------------------ the state
VARIABLES
  args,        \* what PARSE_ARGS yields: Dimension, NumberOfComponents,
               \* ScalarType, Size, Spacing, Origin, Direction, FillValue
  pc,          \* position of the thread of control
  D,           \* template argument of DoIt<D> (0: not dispatched yet)
  selected,    \* the DoIt<OutputImageType, OutputScalarType> invoked
  image,       \* the itk image object
  imagePtr,    \* the local smart pointer `image` holds the object
  writerInput, \* the writer holds the object as its input
  bufferLive,  \* the pixel buffer is allocated and not yet freed
  ret,         \* value returned by DoIt<D>
  exitStatus,  \* status the process ended with
  cout,        \* a diagnostic went to std::cout
  cerr,        \* a diagnostic went to std::cerr
  file,        \* the file at OutputVolume
  fileImage,   \* the image serialized into it
  oobRead,     \* a parameter vector was read at or past its length
  oobWrite     \* the buffer was written at or past its length

vars ==
  <<args, pc, D, selected, image, imagePtr, writerInput, bufferLive, ret,
    exitStatus, cout, cerr, file, fileImage, oobRead, oobWrite>>

\* ---------------------------------------------------------------- inputs
SizeInputs(n) == [1..n -> 0..MaxSize]

\* Row-major identity matrix of n x n entries.
Identity(n) ==
  [k \in 1..(n * n) |-> IF (k - 1) \div n = (k - 1) % n THEN 1 ELSE 0]

\* Unit geometry, and a geometry whose entries all differ (its direction
\* matrix is not orthonormal).
UnitGeometry(n) ==
  [Spacing   |-> [i \in 1..n |-> 1],
   Origin    |-> [i \in 1..n |-> 0],
   Direction |-> Identity(n)]

SkewGeometry(n) ==
  [Spacing   |-> [i \in 1..n |-> i + 1],
   Origin    |-> [i \in 1..n |-> -i],
   Direction |-> [k \in 1..(n * n) |-> k + 1]]

GeometryInputs(n) == {UnitGeometry(n), SkewGeometry(n)}

\* Fill patterns 10, 20, ... of every length; with them, all fill vectors
\* over FillDomain.
FillPatterns == {[i \in 1..n |-> 10 * i] : n \in 1..MaxFillLen}
FillInputs ==
  FillPatterns \cup UNION {[1..n -> FillDomain] : n \in 1..MaxFillLen}

Args(dim, ncomp, tag, size, geo, fill) ==
  [Dimension          |-> dim,
   NumberOfComponents |-> ncomp,
   ScalarType         |-> tag,
   Size               |-> size,
   Spacing            |-> geo.Spacing,
   Origin             |-> geo.Origin,
   Direction          |-> geo.Direction,
   FillValue          |-> fill]

NoInstance == [image |-> "none", dim |-> 0, scalar |-> "none"]

NoImage ==
  [kind |-> "none", dim |-> 0, vectorLength |-> 0, size |-> <<>>,
   index |-> <<>>, buffer |-> <<>>, spacing |-> <<>>, origin |-> <<>>,
   direction |-> <<>>]

Start ==
  /\ pc = "main"
  /\ D = 0
  /\ selected = NoInstance
  /\ image = NoImage
  /\ imagePtr = FALSE
  /\ writerInput = FALSE
  /\ bufferLive = FALSE
  /\ ret = "none"
  /\ exitStatus = "running"
  /\ cout = FALSE
  /\ cerr = FALSE
  /\ file = "untouched"
  /\ fileImage = NoImage
  /\ oobRead = FALSE
  /\ oobWrite = FALSE

\* Every dimension, tag, component count, size and geometry, with the
\* fill patterns.
Init ==
  /\ \E dim \in Dimensions, ncomp \in 1..MaxComponents, tag \in AllTags,
        fill \in FillPatterns :
       \E size \in SizeInputs(dim), geo \in GeometryInputs(dim) :
         args = Args(dim, ncomp, tag, size, geo, fill)
  /\ Start

\* The supported dimensions with unit geometry, and every fill vector.
InitFill ==
  /\ \E dim \in ValidDimensions, ncomp \in 1..MaxComponents, tag \in AllTags,
        fill \in FillInputs :
       \E size \in SizeInputs(dim) :
         args = Args(dim, ncomp, tag, size, UnitGeometry(dim), fill)
  /\ Start

\* ----------------------------------------------------------------- main
\* Mutant: the switch without its case 2.
MainSwitchNoCase2(dimension) ==
  CASE dimension = 1 -> 1
    [] OTHER         -> 3

\* switch(Dimension): case 1, case 2, and default together with case 3.
MainSwitch(dimension) ==
  CASE dimension = 1 -> 1
    [] dimension = 2 -> 2
    [] OTHER         -> 3

Main ==
  /\ pc = "main"
  /\ D' = MainSwitch(args.Dimension)
  /\ pc' = "DoItD"
  /\ UNCHANGED <<args, selected, image, imagePtr, writerInput, bufferLive, ret,
                 exitStatus, cout, cerr, file, fileImage, oobRead, oobWrite>>

\* -------------------------------------------------------------- DoIt<D>
\* Mutant: a vector image from one component on.
IsVectorFromOne(numberOfComponents) == numberOfComponents >= 1

\* const bool isVector = (numberOfComponents > 1);
IsVector(numberOfComponents) == numberOfComponents > 1

\* The scalar type each case of the switch names.
ScalarOf(type) ==
  CASE type = "UCHAR"  -> "unsigned char"
    [] type = "CHAR"   -> "char"
    [] type = "USHORT" -> "unsigned short"
    [] type = "SHORT"  -> "short"
    [] type = "UINT"   -> "unsigned int"
    [] type = "INT"    -> "int"
    [] type = "ULONG"  -> "unsigned long"
    [] type = "LONG"   -> "long"
    [] type = "FLOAT"  -> "float"
    [] type = "DOUBLE" -> "double"

\* isVector ? DoIt<itk::VectorImage<T, D>, T> : DoIt<itk::Image<T, D>, T>
Dispatch(type, d, isVector) ==
  [image  |-> IF isVector THEN "VectorImage" ELSE "Image",
   dim    |-> d,
   scalar |-> ScalarOf(type)]

DoItDDispatch ==
  /\ pc = "DoItD"
  /\ GetComponentTypeFromString(args.ScalarType) # "UNKNOWNCOMPONENTTYPE"
  /\ selected' = Dispatch(GetComponentTypeFromString(args.ScalarType), D,
                          IsVector(args.NumberOfComponents))
  /\ pc' = "New"
  /\ UNCHANGED <<args, D, image, imagePtr, writerInput, bufferLive, ret,
                 exitStatus, cout, cerr, file, fileImage, oobRead, oobWrite>>

\* Mutant: the unknown type falls out of the switch onto a success return.
DoItDUnknownSuccess ==
  /\ pc = "DoItD"
  /\ GetComponentTypeFromString(args.ScalarType) = "UNKNOWNCOMPONENTTYPE"
  /\ cout' = TRUE
  /\ ret' = "EXIT_SUCCESS"
  /\ pc' = "main_return"
  /\ UNCHANGED <<args, D, selected, image, imagePtr, writerInput, bufferLive,
                 exitStatus, cerr, file, fileImage, oobRead, oobWrite>>

\* case UNKNOWNCOMPONENTTYPE / default: std::cout, then return EXIT_FAILURE.
DoItDUnknown ==
  /\ pc = "DoItD"
  /\ GetComponentTypeFromString(args.ScalarType) = "UNKNOWNCOMPONENTTYPE"
  /\ cout' = TRUE
  /\ ret' = "EXIT_FAILURE"
  /\ pc' = "main_return"
  /\ UNCHANGED <<args, D, selected, image, imagePtr, writerInput, bufferLive,
                 exitStatus, cerr, file, fileImage, oobRead, oobWrite>>

\* ------------------------------ DoIt<OutputImageType, OutputScalarType>
\* OutputImageType::New(): an empty region and the identity geometry.
NewImage(inst) ==
  [kind         |-> inst.image,
   dim          |-> inst.dim,
   vectorLength |-> 0,
   size         |-> [i \in 1..inst.dim |-> 0],
   index        |-> [i \in 1..inst.dim |-> 0],
   buffer       |-> <<>>,
   spacing      |-> [i \in 1..inst.dim |-> Num(1)],
   origin       |-> [i \in 1..inst.dim |-> Num(0)],
   direction    |-> [r \in 0..(inst.dim - 1) |->
                      [c \in 0..(inst.dim - 1) |->
                        IF r = c THEN Num(1) ELSE Num(0)]]]

\* image->SetNumberOfComponentsPerPixel(n): the vector length of a
\* VectorImage; an Image of scalars has one component whatever is asked.
SetNumberOfComponentsPerPixel(img, n) ==
  IF img.kind = "VectorImage" THEN [img EXCEPT !.vectorLength = n] ELSE img

GetNumberOfComponentsPerPixel(img) ==
  IF img.kind = "VectorImage" THEN img.vectorLength ELSE 1

\* Lines 150-154, before any region is set.
Construct(inst, numberOfComponents) ==
  IF numberOfComponents > 1
  THEN SetNumberOfComponentsPerPixel(NewImage(inst), numberOfComponents)
  ELSE NewImage(inst)

DoItNew ==
  /\ pc = "New"
  /\ image' = Construct(selected, args.NumberOfComponents)
  /\ imagePtr' = TRUE
  /\ pc' = "SetRegions"
  /\ UNCHANGED <<args, D, selected, writerInput, bufferLive, ret, exitStatus,
                 cout, cerr, file, fileImage, oobRead, oobWrite>>

\* size[i] = Size[i] for i < ImageDimension: an entry at or past Size's
\* length is read outside the vector and may hold anything.
ReadSizes(Sz, n) ==
  {sz \in [1..n -> 0..MaxSize] :
     \A i \in 1..n : i <= Len(Sz) => sz[i] = Sz[i]}

\* start[i] = 0
StartIndex(n) == [i \in 1..n |-> 0]

SetRegions ==
  /\ pc = "SetRegions"
  /\ \E sz \in ReadSizes(args.Size, image.dim) :
       image' = [image EXCEPT !.size = sz, !.index = StartIndex(image.dim)]
  /\ oobRead' = (oobRead \/ image.dim > Len(args.Size))
  /\ pc' = "Allocate"
  /\ UNCHANGED <<args, D, selected, imagePtr, writerInput, bufferLive, ret,
                 exitStatus, cout, cerr, file, fileImage, oobWrite>>

RECURSIVE Product(_)
Product(sz) == IF Len(sz) = 0 THEN 1 ELSE Head(sz) * Product(Tail(sz))

\* Mutant: one scalar per pixel whatever the components per pixel.
AllocatedBufferOneComponent(img) == [k \in 1..Product(img.size) |-> Uninit]

\* image->Allocate(): components per pixel times the region's pixels, none
\* of them initialized.
AllocatedBuffer(img) ==
  [k \in 1..(GetNumberOfComponentsPerPixel(img) * Product(img.size)) |-> Uninit]

Allocate ==
  /\ pc = "Allocate"
  /\ GetNumberOfComponentsPerPixel(image) > 0
  /\ image' = [image EXCEPT !.buffer = AllocatedBuffer(image)]
  /\ bufferLive' = TRUE
  /\ pc' = "SetGeometry"
  /\ UNCHANGED <<args, D, selected, imagePtr, writerInput, ret, exitStatus,
                 cout, cerr, file, fileImage, oobRead, oobWrite>>

\* Allocate() throws an itk::ExceptionObject: no memory, or a VectorImage
\* of vector length 0.
AllocateThrow ==
  /\ pc = "Allocate"
  /\ pc' = "unwind"
  /\ UNCHANGED <<args, D, selected, image, imagePtr, writerInput, bufferLive,
                 ret, exitStatus, cout, cerr, file, fileImage, oobRead,
                 oobWrite>>

\* v[i] (i from 0) as stored; indeterminate when i is at or past the length.
Read(v, i) == IF i < Len(v) THEN Num(v[i + 1]) ELSE Uninit

\* Mutant: the matrix read column by column.
DirectionIndexTransposed(r, c, n) == c * n + r

\* direction[r][c] = Direction[r * ImageDimension + c]
DirectionIndex(r, c, n) == r * n + c

\* Lines 172-194.
WithGeometry(img, a) ==
  [img EXCEPT
     !.spacing   = [i \in 1..img.dim |-> Read(a.Spacing, i - 1)],
     !.origin    = [i \in 1..img.dim |-> Read(a.Origin, i - 1)],
     !.direction = [r \in 0..(img.dim - 1) |->
                     [c \in 0..(img.dim - 1) |->
                       Read(a.Direction, DirectionIndex(r, c, img.dim))]]]

GeometryReadsOutside ==
  \/ image.dim > Len(args.Spacing)
  \/ image.dim > Len(args.Origin)
  \/ image.dim * image.dim > Len(args.Direction)

SetGeometry ==
  /\ pc = "SetGeometry"
  /\ image' = WithGeometry(image, args)
  /\ oobRead' = (oobRead \/ GeometryReadsOutside)
  /\ pc' = "SetFirstPixel"
  /\ UNCHANGED <<args, D, selected, imagePtr, writerInput, bufferLive, ret,
                 exitStatus, cout, cerr, file, fileImage, oobWrite>>

\* Mutant: the last fill value repeated instead of the cycle.
FillIndexClamped(c, n) == IF c < n THEN c ELSE n - 1

\* FillValue[c % FillValue.size()]
FillIndex(c, n) == c % n

\* The pixels the loop of lines 198-201 can produce: component c is
\* FillValue[c % FillValue.size()] converted to OutputScalarType.
CanonicalPixels(t, fill, ncpp) ==
  LET outcomes == UNION {CastOutcomes(t, fill[i]) : i \in 1..Len(fill)}
  IN  {px \in [0..(ncpp - 1) -> outcomes] :
         \A c \in 0..(ncpp - 1) :
           px[c] \in CastOutcomes(t, fill[FillIndex(c, Len(fill)) + 1])}

\* pixel[c] = px[c] for every c below the components per pixel, pixel being
\* the buffer pointer: a write at or past the buffer's length lands outside
\* the buffer.
WriteFirstPixel(buffer, px, ncpp) ==
  [k \in 1..Len(buffer) |-> IF k <= ncpp THEN px[k - 1] ELSE buffer[k]]

SetFirstPixel ==
  /\ pc = "SetFirstPixel"
  /\ \E px \in CanonicalPixels(selected.scalar, args.FillValue,
                                GetNumberOfComponentsPerPixel(image)) :
       image' = [image EXCEPT !.buffer =
                   WriteFirstPixel(image.buffer, px,
                                   GetNumberOfComponentsPerPixel(image))]
  /\ oobWrite' = (oobWrite
                    \/ GetNumberOfComponentsPerPixel(image) > Len(image.buffer))
  /\ pc' = "FillBuffer"
  /\ UNCHANGED <<args, D, selected, imagePtr, writerInput, bufferLive, ret,
                 exitStatus, cout, cerr, file, fileImage, oobRead>>

\* image->FillBuffer(image->GetPixel(firstIndex)): every pixel becomes the
\* pixel at index zero, component by component.
FilledBuffer(buffer, ncpp) ==
  [k \in 1..Len(buffer) |-> buffer[((k - 1) % ncpp) + 1]]

FillBuffer ==
  /\ pc = "FillBuffer"
  /\ image' = [image EXCEPT !.buffer =
                 FilledBuffer(image.buffer, GetNumberOfComponentsPerPixel(image))]
  /\ pc' = "Writer"
  /\ UNCHANGED <<args, D, selected, imagePtr, writerInput, bufferLive, ret,
                 exitStatus, cout, cerr, file, fileImage, oobRead, oobWrite>>

\* Lines 209-214: the writer is created and takes the image as its input.
WriterSetInput ==
  /\ pc = "Writer"
  /\ writerInput' = TRUE
  /\ pc' = "Update"
  /\ UNCHANGED <<args, D, selected, image, imagePtr, bufferLive, ret,
                 exitStatus, cout, cerr, file, fileImage, oobRead, oobWrite>>

\* writer->Update() throws before it opens the file (no codec for the path
\* or the pixel type).
UpdateRefuse ==
  /\ pc = "Update"
  /\ pc' = "unwind"
  /\ UNCHANGED <<args, D, selected, image, imagePtr, writerInput, bufferLive,
                 ret, exitStatus, cout, cerr, file, fileImage, oobRead,
                 oobWrite>>

\* writer->Update() opens the file and starts to serialize the buffer.
UpdateOpen ==
  /\ pc = "Update"
  /\ file' = "partial"
  /\ pc' = "writing"
  /\ UNCHANGED <<args, D, selected, image, imagePtr, writerInput, bufferLive,
                 ret, exitStatus, cout, cerr, fileImage, oobRead, oobWrite>>

\* The codec fails half way: the exception leaves a partial file.
UpdateFail ==
  /\ pc = "writing"
  /\ pc' = "unwind"
  /\ UNCHANGED <<args, D, selected, image, imagePtr, writerInput, bufferLive,
                 ret, exitStatus, cout, cerr, file, fileImage, oobRead,
                 oobWrite>>

UpdateDone ==
  /\ pc = "writing"
  /\ file' = "complete"
  /\ fileImage' = image
  /\ pc' = "return"
  /\ UNCHANGED <<args, D, selected, image, imagePtr, writerInput, bufferLive,
                 ret, exitStatus, cout, cerr, oobRead, oobWrite>>

\* What the locals `image` and `writer` hold once their scope is left by
\* return, and once it is left by an exception: both are smart pointers,
\* whose destructors drop the reference either way.
LocalsAfterReturn == [imagePtr |-> FALSE, writerInput |-> FALSE]
\* Mutant: plain pointers, which an exception leaves as they are.
LocalsLeakedOnThrow == [imagePtr |-> imagePtr, writerInput |-> writerInput]
LocalsAfterThrow == [imagePtr |-> FALSE, writerInput |-> FALSE]

\* The buffer lives as long as a reference to the image does.
LiveAfter(locals) == bufferLive /\ (locals.imagePtr \/ locals.writerInput)

\* return EXIT_SUCCESS;
DoItReturn ==
  /\ pc = "return"
  /\ ret' = "EXIT_SUCCESS"
  /\ imagePtr' = LocalsAfterReturn.imagePtr
  /\ writerInput' = LocalsAfterReturn.writerInput
  /\ bufferLive' = LiveAfter(LocalsAfterReturn)
  /\ pc' = "main_return"
  /\ UNCHANGED <<args, D, selected, image, exitStatus, cout, cerr, file,
                 fileImage, oobRead, oobWrite>>

\* The exception leaves both DoIt frames.
Unwind ==
  /\ pc = "unwind"
  /\ imagePtr' = LocalsAfterThrow.imagePtr
  /\ writerInput' = LocalsAfterThrow.writerInput
  /\ bufferLive' = LiveAfter(LocalsAfterThrow)
  /\ pc' = "main_catch"
  /\ UNCHANGED <<args, D, selected, image, ret, exitStatus, cout, cerr, file,
                 fileImage, oobRead, oobWrite>>

\* return DoIt<D>(...);
MainReturn ==
  /\ pc = "main_return"
  /\ exitStatus' = ret
  /\ pc' = "exited"
  /\ UNCHANGED <<args, D, selected, image, imagePtr, writerInput, bufferLive,
                 ret, cout, cerr, file, fileImage, oobRead, oobWrite>>

\* Mutant: a handler without its return, falling onto return EXIT_SUCCESS.
MainCatchFallThrough ==
  /\ pc = "main_catch"
  /\ cerr' = TRUE
  /\ exitStatus' = "EXIT_SUCCESS"
  /\ pc' = "exited"
  /\ UNCHANGED <<args, D, selected, image, imagePtr, writerInput, bufferLive,
                 ret, cout, file, fileImage, oobRead, oobWrite>>

\* catch( itk::ExceptionObject & excep ): std::cerr, return EXIT_FAILURE.
MainCatch ==
  /\ pc = "main_catch"
  /\ cerr' = TRUE
  /\ exitStatus' = "EXIT_FAILURE"
  /\ pc' = "exited"
  /\ UNCHANGED <<args, D, selected, image, imagePtr, writerInput, bufferLive,
                 ret, cout, file, fileImage, oobRead, oobWrite>>

\* The next statement reads a parameter vector, or writes the buffer, at
\* or past its length.
ReadsOutside ==
  \/ pc = "SetRegions" /\ image.dim > Len(args.Size)
  \/ pc = "SetGeometry" /\ GeometryReadsOutside

WritesOutside ==
  /\ pc = "SetFirstPixel"
  /\ GetNumberOfComponentsPerPixel(image) > Len(image.buffer)

\* An access outside an array is undefined: the process may go on (the
\* actions above) or be killed at the access.
Crash ==
  /\ ReadsOutside \/ WritesOutside
  /\ oobRead' = (oobRead \/ ReadsOutside)
  /\ oobWrite' = (oobWrite \/ WritesOutside)
  /\ exitStatus' = "SIGSEGV"
  /\ pc' = "exited"
  /\ UNCHANGED <<args, D, selected, image, imagePtr, writerInput, bufferLive,
                 ret, cout, cerr, file, fileImage>>

Next ==
  \/ Main
  \/ DoItDDispatch
  \/ DoItDUnknown
  \/ DoItNew
  \/ SetRegions
  \/ Allocate
  \/ AllocateThrow
  \/ SetGeometry
  \/ SetFirstPixel
  \/ FillBuffer
  \/ WriterSetInput
  \/ UpdateRefuse
  \/ UpdateOpen
  \/ UpdateFail
  \/ UpdateDone
  \/ DoItReturn
  \/ Unwind
  \/ MainReturn
  \/ MainCatch
  \/ Crash

Spec == Init /\ [][Next]_vars

SpecFill == InitFill /\ [][Next]_vars

\* =============================================================== claims
\* What the claims say of the parameters, stated without the program's
\* own operators.
TagScalar(tag) ==
  CASE tag = "uchar"  -> "unsigned char"
    [] tag = "char"   -> "char"
    [] tag = "ushort" -> "unsigned short"
    [] tag = "short"  -> "short"
    [] tag = "uint"   -> "unsigned int"
    [] tag = "int"    -> "int"
    [] tag = "ulong"  -> "unsigned long"
    [] tag = "long"   -> "long"
    [] tag = "float"  -> "float"
    [] tag = "double" -> "double"
    [] OTHER          -> "none"

ValidConfiguration == args.Dimension \in ValidDimensions

RequestedPixels == Product(args.Size)

\* The builder has finished and the image has not been torn down.
Built == pc \in {"Writer", "Update", "writing", "return"}

\* From image->Allocate() until the writer is done with the image.
Allocated ==
  pc \in {"SetGeometry", "SetFirstPixel", "FillBuffer", "Writer", "Update",
          "writing", "return"}

\* Component c of pixel p of the buffer (both from 0).
Component(p, c) == image.buffer[p * args.NumberOfComponents + c + 1]

\* C1: for every valid configuration, once the builder has finished, every
\* pixel's component c is FillValue[c mod len(FillValue)] converted to the
\* requested scalar kind, the same at every pixel; with 3 components and
\* fill values 10, 20 every pixel is 10, 20, 10.
C1_UniformCyclicFill ==
  (ValidConfiguration /\ Built) =>
    /\ Len(image.buffer) = args.NumberOfComponents * RequestedPixels
    /\ \A p \in 0..(RequestedPixels - 1) :
         \A c \in 0..(args.NumberOfComponents - 1) :
           /\ Component(p, c) \in
                CastOutcomes(TagScalar(args.ScalarType),
                             args.FillValue[(c % Len(args.FillValue)) + 1])
           /\ Component(p, c) = Component(0, c)
    /\ (args.NumberOfComponents = 3 /\ args.FillValue = <<10, 20>>) =>
         \A p \in 0..(RequestedPixels - 1) :
           <<Component(p, 0), Component(p, 1), Component(p, 2)>>
             = <<Num(10), Num(20), Num(10)>>

\* Two pixels of three components filled from the two values 10, 20, which
\* unsigned char holds.
C1_Witness ==
  /\ pc = "Writer"
  /\ args.NumberOfComponents = 3
  /\ args.FillValue = <<10, 20>>
  /\ args.ScalarType = "uchar"
  /\ args.Size = <<2>>
  /\ image.buffer = <<Num(10), Num(20), Num(10), Num(10), Num(20), Num(10)>>

\* C2: for every valid configuration the allocated buffer holds exactly
\* NumberOfComponents x product(Size) scalars from allocation until the
\* writer is done, and the components per pixel are NumberOfComponents
\* from before the allocation on.
C2_BufferLength ==
  ValidConfiguration =>
    /\ Allocated =>
         /\ bufferLive
         /\ Len(image.buffer) = args.NumberOfComponents * RequestedPixels
    /\ (pc = "Allocate" \/ Allocated) =>
         GetNumberOfComponentsPerPixel(image) = args.NumberOfComponents

C2_Witness ==
  /\ pc = "writing"
  /\ args.NumberOfComponents = 3
  /\ args.Size = <<2, 1, 2>>
  /\ Len(image.buffer) = 12

\* The dimensionality the claims give the image: the requested one when it
\* is 1, 2 or 3, and 3 otherwise.
ImageDimensionality == IF args.Dimension \in {1, 2, 3} THEN args.Dimension ELSE 3

\* DoIt<D> has returned or handed over to the builder.
Resolved == pc \notin {"main", "DoItD"}

\* C3: for every dimension and each of the ten tags the builder is invoked
\* for the representation of the requested dimension (3 for a dimension
\* outside 1..3) and of the requested scalar kind, and a dimension outside
\* 1..3 is not reported as an error.
C3_ResolverTotal ==
  /\ (Resolved /\ args.ScalarType \in ScalarTags) => selected # NoInstance
  /\ selected # NoInstance =>
       /\ selected.dim = ImageDimensionality
       /\ selected.scalar = TagScalar(args.ScalarType)
  /\ pc = "New" =>
       /\ ~cout /\ ~cerr
       /\ ret = "none"
       /\ exitStatus = "running"

C3_Witness ==
  /\ pc = "New"
  /\ args.Dimension = 4
  /\ args.ScalarType = "ulong"
  /\ selected.dim = 3
  /\ selected.scalar = "unsigned long"

\* C4: one component selects the scalar-pixel image, more than one the
\* vector-pixel image, whose components per pixel are then set to exactly
\* NumberOfComponents; the resolver's choice and the builder's decision to
\* set the component count agree.
C4_ScalarOrVector ==
  /\ selected # NoInstance =>
       /\ args.NumberOfComponents = 1 => selected.image = "Image"
       /\ args.NumberOfComponents > 1 => selected.image = "VectorImage"
  /\ image # NoImage =>
       /\ image.kind = selected.image
       /\ (selected.image = "VectorImage") = (image.vectorLength > 0)
       /\ image.kind = "VectorImage" =>
            image.vectorLength = args.NumberOfComponents
       /\ GetNumberOfComponentsPerPixel(image) = args.NumberOfComponents

C4_Witness ==
  /\ pc = "Allocate"
  /\ args.NumberOfComponents = 1
  /\ image.kind = "Image"
  /\ image.vectorLength = 0

\* C5: with a scalar type that is none of the ten tags, the resolver
\* prints a diagnostic and returns failure without throwing; neither the
\* builder nor the writer runs, the output file is not touched, and the
\* exit status is not zero.
C5_UnknownScalarType ==
  args.ScalarType \notin ScalarTags =>
    /\ pc \in {"main", "DoItD", "main_return", "exited"}
    /\ selected = NoInstance
    /\ image = NoImage
    /\ ~imagePtr /\ ~writerInput /\ ~bufferLive
    /\ file = "untouched" /\ fileImage = NoImage
    /\ pc \in {"main_return", "exited"} => (cout \/ cerr) /\ ret = "EXIT_FAILURE"
    /\ pc = "exited" => exitStatus = "EXIT_FAILURE"

C5_Witness ==
  /\ pc = "exited"
  /\ args.ScalarType = "bogus"
  /\ exitStatus = "EXIT_FAILURE"
  /\ cout
  /\ file = "untouched"

\* No scalar of the buffer is left unwritten.
FullyFilled(img) == \A k \in 1..Len(img.buffer) : img.buffer[k].def

\* C6: the process exits with status 0 exactly when the writer completed
\* the serialization of the fully filled image; an exception from the
\* construction or from the write is caught in main and ends in the
\* failure status, never in success.
C6_ExitStatus ==
  /\ pc = "exited" =>
       (exitStatus = "EXIT_SUCCESS") = (file = "complete")
  /\ exitStatus = "EXIT_SUCCESS" => pc = "exited"
  /\ file = "complete" => fileImage = image /\ FullyFilled(fileImage)
  /\ pc \in {"unwind", "main_catch"} => file # "complete"
  /\ (pc = "exited" /\ cerr) => exitStatus = "EXIT_FAILURE"

C6_Witness ==
  /\ pc = "exited"
  /\ file = "partial"
  /\ cerr
  /\ exitStatus = "EXIT_FAILURE"

\* C7: every invocation that ends with the failure status has written a
\* diagnostic to the error stream.
C7_DiagnosticOnErrorStream ==
  (pc = "exited" /\ exitStatus = "EXIT_FAILURE") => cerr

\* The image is in the writer's hands.
HandedToWriter == pc \in {"Update", "writing", "return"}

\* The geometry of the image on its first n axes, the direction matrix
\* read from Direction in rows of the given stride.
GeometryVerbatim(n, stride) ==
  /\ \A i \in 1..n :
       /\ i \in DOMAIN image.size
       /\ image.index[i] = 0
       /\ image.size[i] = args.Size[i]
       /\ image.spacing[i] = Num(args.Spacing[i])
       /\ image.origin[i] = Num(args.Origin[i])
  /\ \A r \in 0..(n - 1) : \A c \in 0..(n - 1) :
       /\ r \in DOMAIN image.direction
       /\ c \in DOMAIN image.direction[r]
       /\ image.direction[r][c] = Num(args.Direction[r * stride + c + 1])

\* C8 as stated: for every configuration the image handed to the writer
\* has start index 0, size Size[i], spacing and origin as supplied on
\* every axis i below the dimension, and direction entry (r, c) equal to
\* Direction[r x dimension + c] for all r, c below the dimension.
C8_GeometryByRequestedDimension ==
  HandedToWriter => GeometryVerbatim(args.Dimension, args.Dimension)

\* C8, amended: the image handed to the writer has ImageDimensionality
\* axes (the dimension when it is 1, 2 or 3, and 3 otherwise); on every
\* axis i below both the dimension and 3 it has start index 0, size
\* Size[i] and the supplied spacing and origin, and its direction entry
\* (r, c), for r, c below both, is Direction[r x ImageDimensionality + c].
C8_GeometryByImageDimension ==
  HandedToWriter =>
    /\ image.dim = ImageDimensionality
    /\ DOMAIN image.size = 1..ImageDimensionality
    /\ DOMAIN image.direction = 0..(ImageDimensionality - 1)
    /\ GeometryVerbatim(IF args.Dimension < 3 THEN args.Dimension ELSE 3,
                        ImageDimensionality)

\* A 4 x 4 matrix of distinct entries was supplied: entry (1, 0) of the
\* image is the supplied element 1 x 3 + 0, the fourth.
C8_Witness ==
  /\ pc = "Update"
  /\ args.Dimension = 4
  /\ args.Direction = SkewGeometry(4).Direction
  /\ args.Size = <<2, 1, 2, 1>>
  /\ image.size = <<2, 1, 2>>
  /\ image.direction[1][0] = Num(args.Direction[4])
  /\ image.spacing = <<Num(2), Num(3), Num(4)>>

\* C9: on every exit path the image buffer is released by the time the
\* pipeline is back in main, also when the allocation or the writer threw,
\* and it is not released while the writer holds or reads the image.
C9_BufferReleased ==
  /\ (pc \in {"main_return", "main_catch"}
        \/ (pc = "exited" /\ exitStatus # "SIGSEGV")) =>
       ~bufferLive /\ ~imagePtr /\ ~writerInput
  /\ pc \in {"Update", "writing", "return"} =>
       bufferLive /\ imagePtr /\ writerInput

\* The writer failed half way and the buffer is gone.
C9_Witness ==
  /\ pc = "main_catch"
  /\ file = "partial"
  /\ Len(image.buffer) > 0
  /\ ~bufferLive

\* C10: for every configuration the parameter set admits, every read of
\* Size, Spacing, Origin, Direction and FillValue is below the vector's
\* length and every write of the first pixel is below the buffer's length.
C10_AccessesInBounds == ~oobRead /\ ~oobWrite

\* The same for the supported dimensions alone, where only the write of
\* the first pixel can be outside (a region without pixels).
C10_ValidDimensionInBounds == ValidConfiguration => C10_AccessesInBounds

====
